---- MODULE Spec2Model ----
(***************************************************************************)
(* Model of MaterialsProcessor (src/src/utils.py): the retry executor, the *)
(* stoichiometry validator, the structure-acquisition pipeline             *)
(* get_or_create_structure and the batch driver process_formulas.          *)
(*                                                                         *)
(* Element amounts are held in tenths (amount 1.7 is 17), volumes in       *)
(* tenths of a cubic unit (volume 1.0 is 10), electronegativities in       *)
(* hundredths.  The comparisons the code makes in floating point are made  *)
(* here on exact rationals; within the bounds below no compared quantity   *)
(* lies exactly on a threshold except 8/25 against 0.33, where the float   *)
(* and the exact comparison both answer "not within".                      *)
(***************************************************************************)
EXTENDS Integers, Sequences, FiniteSets, TLC

(***************************************************************************)
(* Bounds of the model.                                                    *)
(***************************************************************************)
MaxCount == 36      \* largest element amount (in tenths) given to is_valid_stoichiometry
MaxRetries == 3     \* largest max_retries of a direct retry() call
MaxBackoff == 3     \* largest backoff_factor of a direct retry() call
MaxCalls == 2       \* direct get_or_create_structure calls on one processor
MaxFormulas == 3    \* longest formula list given to process_formulas
MaxBatch == 2       \* largest batch_size given to process_formulas

(***************************************************************************)
(* Program constants.                                                      *)
(***************************************************************************)
DefaultMaxRetries == 5      \* retry(self, func, max_retries=5, ...)
DefaultBackoff == 2         \* retry(..., backoff_factor=2)
DefaultDelay == 10          \* process_formulas(..., delay=10)
MinVolume == 10             \* struct.volume < 1.0
MaxReducedRatio == 4        \* max(simplified) > 4
EmergencyVolume == 640      \* Lattice.cubic(4.0)
TernaryVolume == 390        \* Lattice.hexagonal(a=3.0, c=5.0): 9 * 5 * sin(60 deg) = 38.97
BinaryVolume == 2160        \* Lattice.cubic(6.0)

VARIABLES
    cached_structures,  \* self.cached_structures: formula -> structure (None: no entry)
    error_log,          \* self.error_log
    files,              \* the files written under structure_dir / structures
    checkpoint,         \* content of processing_checkpoint.json (<<"absent">> before the first write)
    pc,                 \* control location of the running call
    rt,                 \* frame of retry
    goc,                \* frame of get_or_create_structure
    pf,                 \* frame of process_formulas
    stoich,             \* argument and result of the last is_valid_stoichiometry call
    helper,             \* argument and result of the last direct call of a stage function
    sleeps,             \* durations passed to time.sleep, in call order
    outcomes,           \* what each func() call made by retry did, in call order
    trace,              \* stage functions invoked by the running get_or_create_structure call
    lookups,            \* database requests issued by that call
    searches,           \* substitution searches issued by that call
    produced,           \* the stage whose function first returned a structure in that call
    first_ret,          \* per formula, the first structure get_or_create_structure returned
    events,             \* what process_formulas did, in order
    calls               \* number of direct get_or_create_structure calls made

vars == <<cached_structures, error_log, files, checkpoint, pc, rt, goc, pf, stoich, helper,
          sleeps, outcomes, trace, lookups, searches, produced, first_ret, events, calls>>

(***************************************************************************)
(* Values.                                                                 *)
(***************************************************************************)
None == [kind |-> "None"]

SomeValue == [kind |-> "Value"]     \* a truthy result of a caller-supplied operation

\* pymatgen Structure: src is the stage that built it (bookkeeping only)
Structure(src, sites, vol, valid) ==
    [kind |-> "Structure", src |-> src, sites |-> sites, vol |-> vol, valid |-> valid]

\* Python truth value: None is falsy, a Structure is truthy iff it has sites (__len__)
Truthy(x) ==
    CASE x.kind = "None" -> FALSE
      [] x.kind = "Structure" -> Len(x.sites) > 0
      [] OTHER -> TRUE

Max(a, b) == IF a >= b THEN a ELSE b

Abs(x) == IF x < 0 THEN -x ELSE x

RECURSIVE Gcd2(_, _)
Gcd2(a, b) == IF b = 0 THEN a ELSE Gcd2(b, a % b)

RECURSIVE GcdSeq(_)
\* math.gcd(*ratios)
GcdSeq(s) == IF s = <<>> THEN 0 ELSE Gcd2(Head(s), GcdSeq(Tail(s)))

RECURSIVE MaxSeq(_)
MaxSeq(s) == IF Len(s) = 1 THEN s[1] ELSE Max(s[1], MaxSeq(Tail(s)))

RECURSIVE Repeat(_, _)
Repeat(x, n) == IF n <= 0 THEN <<>> ELSE <<x>> \o Repeat(x, n - 1)

(***************************************************************************)
(* Formulas and pymatgen's Composition(formula).                           *)
(***************************************************************************)
Formulas == {"MgInP2", "NaCl", "NaCl1.7", "Xx2"}

\* Composition("Xx2") raises: Xx is no element symbol
CompositionParses(formula) == formula # "Xx2"

Comp(elements, amounts) == [elements |-> elements, amounts |-> amounts]

Composition(formula) ==
    CASE formula = "MgInP2" -> Comp(<<"Mg", "In", "P">>, <<10, 10, 20>>)
      [] formula = "NaCl" -> Comp(<<"Na", "Cl">>, <<10, 10>>)
      [] formula = "NaCl1.7" -> Comp(<<"Na", "Cl">>, <<10, 17>>)
      [] OTHER -> Comp(<<>>, <<>>)

\* Element.X, in hundredths
Electronegativity(el) ==
    CASE el = "Na" -> 93
      [] el = "Mg" -> 131
      [] el = "In" -> 178
      [] el = "P" -> 219
      [] el = "H" -> 220
      [] el = "Cl" -> 316
      [] OTHER -> 0

(***************************************************************************)
(* is_valid_stoichiometry (lines 39-48).                                   *)
(* abs(a/b - r) < 0.01 for r = p/q is |q*100*a - p*100*b| < q*b.           *)
(***************************************************************************)
WithinTolerance(a, b, p, q) == Abs(q * 100 * a - p * 100 * b) < q * b

\* the literals [1, 0.5, 2, 0.33, 3] as fractions
StoichRatios == {<<1, 1>>, <<1, 2>>, <<2, 1>>, <<33, 100>>, <<3, 1>>}

is_valid_stoichiometry(comp) ==
    IF Len(comp.elements) = 2
    THEN LET a == comp.amounts[1]
             b == comp.amounts[2]
         IN  IF b = 0 THEN FALSE       \* ZeroDivisionError -> False
             ELSE \E r \in StoichRatios : WithinTolerance(a, b, r[1], r[2])
    ELSE TRUE

(***************************************************************************)
(* Initial state: a MaterialsProcessor right after __init__ (lines 16-21). *)
(***************************************************************************)
IdleRt == [func |-> "none", max_retries |-> 0, backoff_factor |-> 0, attempt |-> 0,
           result |-> None, caller |-> "none"]

IdleGoc == [formula |-> "", caller |-> "none", stage |-> "none",
            result |-> None, raised |-> FALSE, validated |-> <<>>]

IdlePf == [formulas |-> <<>>, batch_size |-> 0, delay |-> 0, batch_idx |-> 0, i |-> 0,
           batch_results |-> <<>>, results |-> <<>>, failed |-> {}]

IdleHelper == [func |-> "none", comp |-> Comp(<<>>, <<>>), reply |-> "none",
               out |-> [raised |-> FALSE, value |-> None], searched |-> FALSE]

Init ==
    /\ cached_structures = [f \in Formulas |-> None]
    /\ error_log = <<>>
    /\ files = {}
    /\ checkpoint = <<"absent">>
    /\ pc = "idle"
    /\ rt = IdleRt
    /\ goc = IdleGoc
    /\ pf = IdlePf
    /\ stoich = [called |-> FALSE, comp |-> Comp(<<>>, <<>>), result |-> FALSE]
    /\ helper = IdleHelper
    /\ sleeps = <<>>
    /\ outcomes = <<>>
    /\ trace = <<>>
    /\ lookups = 0
    /\ searches = 0
    /\ produced = "none"
    /\ first_ret = [f \in Formulas |-> None]
    /\ events = <<>>
    /\ calls = 0

(***************************************************************************)
(* A direct call of is_valid_stoichiometry.                                *)
(***************************************************************************)
\* compositions with one to three elements and amounts 1..MaxCount (a
\* Composition holds no zero amount); the third amount is fixed to keep the
\* input set small, since the function ignores it
StoichInputs ==
    {Comp(<<"Na">>, <<a>>) : a \in 1..MaxCount}
    \cup {Comp(<<"Na", "Cl">>, <<a, b>>) : a \in 1..MaxCount, b \in 1..MaxCount}
    \cup {Comp(<<"Na", "Cl", "Mg">>, <<a, b, 10>>) : a \in {10, 17}, b \in {10, 17, 20}}

CallIsValidStoichiometry ==
    /\ pc = "idle"
    /\ \E comp \in StoichInputs :
          stoich' = [called |-> TRUE, comp |-> comp, result |-> is_valid_stoichiometry(comp)]
    /\ pc' = "done"
    /\ UNCHANGED <<cached_structures, error_log, files, checkpoint, rt, goc, pf,
                   helper, sleeps, outcomes, trace, lookups, searches, produced,
                   first_ret, events, calls>>

SpecStoich == Init /\ [][CallIsValidStoichiometry]_vars

(***************************************************************************)
(* The external collaborators.  A reply is what the collaborator does on   *)
(* one request: it raises ("exception") or answers with a list (docs /     *)
(* predictions) that is empty or holds one structure.                      *)
(***************************************************************************)
Reply(kind, docs) == [kind |-> kind, docs |-> docs]

RECURSIVE Sites(_, _)
\* the atoms of a composition, last element first: amounts[k] \div 10 atoms each
Sites(elements, amounts) ==
    IF elements = <<>> THEN <<>>
    ELSE Sites(Tail(elements), Tail(amounts)) \o Repeat(Head(elements), Head(amounts) \div 10)

\* what a record of the database (or a substitution prediction) can hold for a
\* formula: a sound cell, a cell of volume 0.4, a cell with no sites, and an
\* object on which validation raises
StageStructures(src, comp) ==
    LET s == Sites(comp.elements, comp.amounts)
    IN  {Structure(src, s, 600, TRUE), Structure(src, s, 4, TRUE),
         Structure(src, <<>>, 600, TRUE), Structure(src, s, 600, FALSE)}

\* self.mpr.summary.search(formula=..., chunk_size=1)
MpReplies(formula) ==
    {Reply("exception", <<>>), Reply("ok", <<>>)}
    \cup {Reply("ok", <<s>>) : s \in StageStructures("database", Composition(formula))}

\* Substitutor(threshold=0.1).pred_from_comp(comp)
SubstitutorReplies(comp) ==
    {Reply("exception", <<>>), Reply("ok", <<>>)}
    \cup {Reply("ok", <<s>>) : s \in StageStructures("substitution", comp)}

\* a caller-supplied operation given to retry: raises, returns None, returns a value
UserReplies == {Reply("exception", <<>>), Reply("ok", <<>>), Reply("ok", <<SomeValue>>)}

(***************************************************************************)
(* The stage functions.  Each yields [raised, value].                      *)
(***************************************************************************)
Returned(value) == [raised |-> FALSE, value |-> value]

Raised == [raised |-> TRUE, value |-> None]

\* without the try/except of lines 82 and 90-92: the client's exception propagates
get_mp_structure_unguarded(formula, reply) ==
    IF reply.kind = "exception" THEN Raised
    ELSE IF reply.docs = <<>> THEN Returned(None) ELSE Returned(reply.docs[1])

\* lines 81-92
get_mp_structure(formula, reply) ==
    IF reply.kind = "exception" THEN Returned(None)
    ELSE IF reply.docs = <<>> THEN Returned(None) ELSE Returned(reply.docs[1])

\* int(comp[e]) for e in comp.elements (line 103)
IntRatios(comp) == [k \in 1..Len(comp.amounts) |-> comp.amounts[k] \div 10]

\* lines 99-109: whether _predict_substitution reaches the search
SubstitutionSearches(comp) ==
    /\ Len(comp.elements) >= 2
    /\ GcdSeq(IntRatios(comp)) # 0                                        \* else ZeroDivisionError
    /\ MaxSeq(IntRatios(comp)) <= MaxReducedRatio * GcdSeq(IntRatios(comp))  \* max(r/gcd) <= 4

\* without the except clause of lines 118-120: a failure of the search propagates
predict_substitution_unguarded(comp, reply) ==
    IF ~SubstitutionSearches(comp) THEN Returned(None)
    ELSE IF reply.kind = "exception" THEN Raised
    ELSE IF reply.docs = <<>> THEN Returned(None) ELSE Returned(reply.docs[1])

\* lines 94-120
predict_substitution(comp, reply) ==
    IF ~SubstitutionSearches(comp) THEN Returned(None)
    ELSE IF reply.kind = "exception" THEN Returned(None)
    ELSE IF reply.docs = <<>> THEN Returned(None) ELSE Returned(reply.docs[1])

RECURSIVE Orbits(_, _)
\* Structure.from_spacegroup: every given species is replicated over the orbit
\* of its coordinate; orbits of different entries are not merged
Orbits(species, mult) ==
    IF species = <<>> THEN <<>>
    ELSE Repeat(Head(species), Head(mult)) \o Orbits(Tail(species), Tail(mult))

\* lines 122-142.  P-3m1: (0,0,0) is Wyckoff 1a; (1/3,2/3,z) is 2d
generate_ternary_112(comp) ==
    IF Len(comp.elements) # 3 \/ ~is_valid_stoichiometry(comp) THEN None
    ELSE LET e == comp.elements
         IN  Structure("prototype", Orbits(<<e[1], e[2], e[3], e[3]>>, <<1, 2, 2, 2>>),
                       TernaryVolume, TRUE)

\* lines 144-165.  Pm-3m: (0,0,0) is 1a, (1/2,1/2,1/2) is 1b, (1/2,0,0) is 3d
generate_binary_13(comp) ==
    IF Len(comp.elements) # 2 \/ ~is_valid_stoichiometry(comp) THEN None
    ELSE LET e == comp.elements
         IN  Structure("prototype",
                       Orbits(<<e[1], e[2], e[2], e[2], e[2]>>, <<1, 1, 3, 3, 3>>),
                       BinaryVolume, TRUE)

\* line 178: struct and len(struct) == len(comp)
PrototypeAccepted(struct, comp) ==
    Truthy(struct) /\ Len(struct.sites) = Len(comp.elements)

\* lines 167-181
generate_fallback(comp) ==
    LET struct == IF Len(comp.elements) = 3 THEN generate_ternary_112(comp)
                  ELSE IF Len(comp.elements) = 2 THEN generate_binary_13(comp)
                  ELSE None
    IN  IF PrototypeAccepted(struct, comp) THEN Returned(struct) ELSE Returned(None)

\* lines 183-194: Structure(lattice, species, [[0,0,0]]) raises unless there is
\* exactly one species, and the bare except then builds the H cell
generate_emergency_structure(comp) ==
    LET elements == IF comp.elements = <<>> THEN <<"H">> ELSE comp.elements
        species == Repeat(elements[1], Max(1, Len(elements)))
    IN  IF Len(species) = 1
        THEN Structure("emergency", species, EmergencyVolume, TRUE)
        ELSE Structure("emergency", <<"H">>, EmergencyVolume, TRUE)

RECURSIVE InsertSite(_, _)
InsertSite(sorted, el) ==
    IF sorted = <<>> THEN <<el>>
    ELSE IF Electronegativity(el) < Electronegativity(Head(sorted))
         THEN <<el>> \o sorted
         ELSE <<Head(sorted)>> \o InsertSite(Tail(sorted), el)

RECURSIVE SortSites(_)
\* get_sorted_structure: a stable sort of the sites by electronegativity
SortSites(sites) ==
    IF sites = <<>> THEN <<>>
    ELSE InsertSite(SortSites(SubSeq(sites, 1, Len(sites) - 1)), sites[Len(sites)])

\* without lines 77-78: the sites are sorted, the volume is left as it is
validate_structure_unscaled(struct) ==
    IF ~struct.valid THEN Raised
    ELSE Returned(Structure(struct.src, SortSites(struct.sites), struct.vol, TRUE))

\* lines 75-79
validate_structure(struct) ==
    IF ~struct.valid THEN Raised
    ELSE LET vol == IF struct.vol < MinVolume THEN struct.vol * 2 ELSE struct.vol
         IN  Returned(Structure(struct.src, SortSites(struct.sites), vol, TRUE))

(***************************************************************************)
(* Direct calls of _generate_emergency_structure and _predict_substitution *)
(* on a composition.                                                       *)
(***************************************************************************)
\* element amounts 0.5, 1, 2 and 5
HelperAmounts == {5, 10, 20, 50}

\* compositions of no, one, two and three elements
HelperInputs ==
    {Comp(<<>>, <<>>)}
    \cup {Comp(<<"Na">>, <<a>>) : a \in HelperAmounts}
    \cup {Comp(<<"Na", "Cl">>, <<a, b>>) : a \in HelperAmounts, b \in HelperAmounts}
    \cup {Comp(<<"Mg", "In", "P">>, <<a, b, c>>) :
             a \in HelperAmounts, b \in HelperAmounts, c \in HelperAmounts}

\* processor._generate_emergency_structure(comp)
CallGenerateEmergencyStructure ==
    /\ pc = "idle"
    /\ \E comp \in HelperInputs :
          helper' = [func |-> "emergency", comp |-> comp, reply |-> "none",
                     out |-> Returned(generate_emergency_structure(comp)),
                     searched |-> FALSE]
    /\ pc' = "done"
    /\ UNCHANGED <<cached_structures, error_log, files, checkpoint, rt, goc, pf, stoich,
                   sleeps, outcomes, trace, lookups, searches, produced, first_ret,
                   events, calls>>

\* processor._predict_substitution(comp); the substitutor answers only when
\* pred_from_comp is reached (line 113)
CallPredictSubstitution ==
    /\ pc = "idle"
    /\ \E comp \in HelperInputs :
          \E reply \in IF SubstitutionSearches(comp) THEN SubstitutorReplies(comp)
                       ELSE {Reply("ok", <<>>)} :
             helper' = [func |-> "subst", comp |-> comp,
                        reply |-> IF SubstitutionSearches(comp) THEN reply.kind ELSE "none",
                        out |-> predict_substitution(comp, reply),
                        searched |-> SubstitutionSearches(comp)]
    /\ pc' = "done"
    /\ UNCHANGED <<cached_structures, error_log, files, checkpoint, rt, goc, pf, stoich,
                   sleeps, outcomes, trace, lookups, searches, produced, first_ret,
                   events, calls>>

SpecHelpers == Init /\ [][CallGenerateEmergencyStructure \/ CallPredictSubstitution]_vars

(***************************************************************************)
(* retry (lines 23-37), one loop iteration per step.                       *)
(***************************************************************************)
\* line 34
SleepTime(backoff_factor, attempt) == backoff_factor ^ attempt

\* the final attempt is never recognised: attempt == max_retries
IsFinalAttemptLate(attempt, max_retries) == attempt = max_retries

\* line 30
IsFinalAttempt(attempt, max_retries) == attempt = max_retries - 1

StageOf(func) ==
    CASE func = "mp" -> "database"
      [] func = "subst" -> "substitution"
      [] func = "fallback" -> "prototype"
      [] OTHER -> "operation"

\* the replies the collaborator behind func can give on this call
FuncReplies(func) ==
    CASE func = "mp" -> MpReplies(goc.formula)
      [] func = "subst" ->
            IF SubstitutionSearches(Composition(goc.formula))
            THEN SubstitutorReplies(Composition(goc.formula))
            ELSE {Reply("ok", <<>>)}
      [] func = "fallback" -> {Reply("ok", <<>>)}
      [] OTHER -> UserReplies

\* func()
Invoke(func, reply) ==
    CASE func = "mp" -> get_mp_structure(goc.formula, reply)
      [] func = "subst" -> predict_substitution(Composition(goc.formula), reply)
      [] func = "fallback" -> generate_fallback(Composition(goc.formula))
      [] OTHER -> IF reply.kind = "exception" THEN Raised
                  ELSE IF reply.docs = <<>> THEN Returned(None)
                  ELSE Returned(reply.docs[1])

OutcomeKind(out) ==
    IF out.raised THEN "raise" ELSE IF Truthy(out.value) THEN "truthy" ELSE "falsy"

StartRetry(func, max_retries, backoff_factor, caller) ==
    [func |-> func, max_retries |-> max_retries, backoff_factor |-> backoff_factor,
     attempt |-> 0, result |-> None, caller |-> caller]

\* lines 24-36: one iteration of the for loop
RetryIter ==
    /\ pc = "retry"
    /\ rt.attempt < rt.max_retries
    /\ \E reply \in FuncReplies(rt.func) :
          LET out == Invoke(rt.func, reply)
          IN  /\ outcomes' = Append(outcomes, OutcomeKind(out))
              /\ IF rt.caller = "goc"
                 THEN /\ trace' = Append(trace, StageOf(rt.func))
                      /\ lookups' = IF rt.func = "mp" THEN lookups + 1 ELSE lookups
                      /\ searches' = IF rt.func = "subst"
                                        /\ SubstitutionSearches(Composition(goc.formula))
                                     THEN searches + 1 ELSE searches
                      /\ produced' = IF ~out.raised /\ Truthy(out.value)
                                     THEN StageOf(rt.func) ELSE produced
                 ELSE UNCHANGED <<trace, lookups, searches, produced>>
              /\ IF out.raised
                 THEN IF IsFinalAttempt(rt.attempt, rt.max_retries)
                      THEN /\ error_log' = Append(error_log, "exception")
                           /\ rt' = [rt EXCEPT !.result = None]
                           /\ pc' = "retry_ret"
                           /\ UNCHANGED sleeps
                      ELSE /\ sleeps' = Append(sleeps, SleepTime(rt.backoff_factor, rt.attempt))
                           /\ rt' = [rt EXCEPT !.attempt = @ + 1]
                           /\ UNCHANGED <<error_log, pc>>
                 ELSE IF Truthy(out.value)
                      THEN /\ rt' = [rt EXCEPT !.result = out.value]
                           /\ pc' = "retry_ret"
                           /\ UNCHANGED <<error_log, sleeps>>
                      ELSE /\ rt' = [rt EXCEPT !.attempt = @ + 1]
                           /\ UNCHANGED <<error_log, sleeps, pc>>
    /\ UNCHANGED <<cached_structures, files, checkpoint, goc, pf, stoich, helper, first_ret,
                   events, calls>>

\* line 37: the loop ran out
RetryExhausted ==
    /\ pc = "retry"
    /\ rt.attempt >= rt.max_retries
    /\ rt' = [rt EXCEPT !.result = None]
    /\ pc' = "retry_ret"
    /\ UNCHANGED <<cached_structures, error_log, files, checkpoint, goc, pf, stoich, helper,
                   sleeps, outcomes, trace, lookups, searches, produced, first_ret,
                   events, calls>>

\* a direct call processor.retry(func, max_retries, backoff_factor)
CallRetry ==
    /\ pc = "idle"
    /\ \E m \in 1..MaxRetries, b \in 1..MaxBackoff :
          rt' = StartRetry("user", m, b, "direct")
    /\ pc' = "retry"
    /\ outcomes' = <<>>
    /\ UNCHANGED <<cached_structures, error_log, files, checkpoint, goc, pf, stoich, helper,
                   sleeps, trace, lookups, searches, produced, first_ret, events, calls>>

\* retry returns to its direct caller
RetryReturn ==
    /\ pc = "retry_ret"
    /\ rt.caller = "direct"
    /\ pc' = "done"
    /\ UNCHANGED <<cached_structures, error_log, files, checkpoint, rt, goc, pf, stoich, helper,
                   sleeps, outcomes, trace, lookups, searches, produced, first_ret,
                   events, calls>>

SpecRetry == Init /\ [][CallRetry \/ RetryIter \/ RetryExhausted \/ RetryReturn]_vars

(***************************************************************************)
(* get_or_create_structure (lines 50-73).  The frame also keeps the        *)
(* structures the call handed to _validate_structure, as they were before  *)
(* validation.                                                             *)
(***************************************************************************)
StartGoc(formula, caller) ==
    [formula |-> formula, caller |-> caller, stage |-> "none", result |-> None,
     raised |-> FALSE, validated |-> <<>>]

\* the except clause of lines 71-73.  comp is unbound when Composition(formula)
\* itself raised, and evaluating the argument comp then raises
\* UnboundLocalError out of get_or_create_structure
HandlerOutcome(formula) ==
    IF CompositionParses(formula)
    THEN Returned(generate_emergency_structure(Composition(formula)))
    ELSE Raised

\* without lines 56-57: the cache is never consulted
CacheNeverHit(formula) == FALSE

\* lines 56-57: the cache is consulted after parsing and the stoichiometry check
CacheHit(formula) == cached_structures[formula] # None

\* lines 60-62: the stage tried after func came back with nothing
NextStage(func) ==
    CASE func = "mp" -> "subst"
      [] func = "subst" -> "fallback"
      [] OTHER -> "none"

\* lines 51-60: parse, check, consult the cache, start the first stage
GocEnter ==
    /\ pc = "goc_enter"
    /\ outcomes' = <<>>
    /\ lookups' = 0
    /\ searches' = 0
    /\ produced' = "none"
    /\ LET f == goc.formula
       IN  IF ~CompositionParses(f) \/ ~is_valid_stoichiometry(Composition(f))
           THEN LET h == HandlerOutcome(f)
                IN  /\ goc' = [goc EXCEPT !.result = h.value, !.raised = h.raised]
                    /\ trace' = IF h.raised THEN <<>> ELSE <<"emergency">>
                    /\ pc' = "goc_ret"
                    /\ UNCHANGED rt
           ELSE IF CacheHit(f)
                THEN /\ goc' = [goc EXCEPT !.result = cached_structures[f]]
                     /\ trace' = <<>>
                     /\ pc' = "goc_ret"
                     /\ UNCHANGED rt
                ELSE /\ goc' = [goc EXCEPT !.stage = "mp"]
                     /\ rt' = StartRetry("mp", DefaultMaxRetries, DefaultBackoff, "goc")
                     /\ trace' = <<>>
                     /\ pc' = "retry"
    /\ UNCHANGED <<cached_structures, error_log, files, checkpoint, pf, stoich, helper, sleeps,
                   first_ret, events, calls>>

\* lines 60-73: a stage's retry came back; the frame of retry is dropped when
\* the call ends
GocStageDone ==
    /\ pc = "retry_ret"
    /\ rt.caller = "goc"
    /\ LET f == goc.formula
           struct == rt.result
       IN  IF Truthy(struct)
           THEN LET v == validate_structure(struct)
                IN  IF v.raised
                    THEN LET h == HandlerOutcome(f)
                         IN  /\ goc' = [goc EXCEPT !.result = h.value, !.raised = h.raised,
                                                   !.validated = Append(@, struct)]
                             /\ trace' = Append(trace, "emergency")
                             /\ pc' = "goc_ret"
                             /\ rt' = IdleRt
                             /\ UNCHANGED <<cached_structures, outcomes>>
                    ELSE /\ cached_structures' = [cached_structures EXCEPT ![f] = v.value]
                         /\ goc' = [goc EXCEPT !.result = v.value,
                                               !.validated = Append(@, struct)]
                         /\ pc' = "goc_ret"
                         /\ rt' = IdleRt
                         /\ UNCHANGED <<trace, outcomes>>
           ELSE IF NextStage(rt.func) # "none"
                THEN /\ goc' = [goc EXCEPT !.stage = NextStage(rt.func)]
                     /\ rt' = StartRetry(NextStage(rt.func), DefaultMaxRetries,
                                         DefaultBackoff, "goc")
                     /\ outcomes' = <<>>
                     /\ pc' = "retry"
                     /\ UNCHANGED <<cached_structures, trace>>
                ELSE /\ goc' = [goc EXCEPT
                                  !.result = generate_emergency_structure(Composition(f))]
                     /\ trace' = Append(trace, "emergency")
                     /\ pc' = "goc_ret"
                     /\ rt' = IdleRt
                     /\ UNCHANGED <<cached_structures, outcomes>>
    /\ UNCHANGED <<error_log, files, checkpoint, pf, stoich, helper, sleeps, lookups, searches,
                   produced, first_ret, events, calls>>

\* the first structure returned for a formula, kept for comparison with later calls
NoteReturn(formula) ==
    IF ~goc.raised /\ first_ret[formula] = None
    THEN [first_ret EXCEPT ![formula] = goc.result]
    ELSE first_ret

\* the frame of the call and what was recorded about it are dropped
CallOver ==
    /\ goc' = IdleGoc
    /\ outcomes' = <<>>
    /\ trace' = <<>>
    /\ lookups' = 0
    /\ searches' = 0
    /\ produced' = "none"

\* a direct call processor.get_or_create_structure(formula)
CallGetOrCreate ==
    /\ pc = "idle"
    /\ calls < MaxCalls
    /\ \E f \in Formulas : goc' = StartGoc(f, "direct")
    /\ calls' = calls + 1
    /\ pc' = "goc_enter"
    /\ UNCHANGED <<cached_structures, error_log, files, checkpoint, rt, pf, stoich, helper,
                   sleeps, outcomes, trace, lookups, searches, produced, first_ret,
                   events>>

\* get_or_create_structure returns (or raises) to its direct caller
GocReturn ==
    /\ pc = "goc_ret"
    /\ goc.caller = "direct"
    /\ first_ret' = NoteReturn(goc.formula)
    /\ pc' = "idle"
    /\ CallOver
    /\ UNCHANGED <<cached_structures, error_log, files, checkpoint, rt, pf, stoich, helper,
                   sleeps, events, calls>>

Next ==
    \/ CallGetOrCreate
    \/ GocEnter
    \/ RetryIter
    \/ RetryExhausted
    \/ GocStageDone
    \/ GocReturn

Spec == Init /\ [][Next]_vars

(***************************************************************************)
(* process_formulas (lines 196-236).  A dict is a sequence of [key, value] *)
(* entries in insertion order.                                             *)
(***************************************************************************)
RECURSIVE DictSet(_, _, _)
\* d[key] = value: an existing key keeps its position
DictSet(d, key, value) ==
    IF d = <<>> THEN <<[key |-> key, value |-> value]>>
    ELSE IF Head(d).key = key THEN <<[key |-> key, value |-> value]>> \o Tail(d)
    ELSE <<Head(d)>> \o DictSet(Tail(d), key, value)

\* results = batch_results in place of results.update(batch_results)
DictReplace(d, other) == other

RECURSIVE DictUpdate(_, _)
\* d.update(other)
DictUpdate(d, other) ==
    IF other = <<>> THEN d
    ELSE DictUpdate(DictSet(d, Head(other).key, Head(other).value), Tail(other))

\* list(d.keys())
DictKeys(d) == [k \in 1..Len(d) |-> d[k].key]

Min(a, b) == IF a <= b THEN a ELSE b

\* a slice one formula too long: formulas[batch_idx:batch_idx + batch_size + 1]
BatchOverlapping(formulas, batch_idx, batch_size) ==
    SubSeq(formulas, batch_idx + 1, Min(batch_idx + batch_size + 1, Len(formulas)))

\* formulas[batch_idx:batch_idx + batch_size] (line 201)
Batch(formulas, batch_idx, batch_size) ==
    SubSeq(formulas, batch_idx + 1, Min(batch_idx + batch_size, Len(formulas)))

\* no except clause: the exception leaves process_formulas
AbortOnFormulaFailure == "pf_raised"

\* lines 211-213: the except clause logs, saves the error file and lets the
\* for loop go on with the next formula of the batch
AfterFormulaFailure == "pf_formula"

\* the formulas given to process_formulas: one that runs through the stages, one
\* of invalid stoichiometry, one that does not parse
BatchFormulas == {"MgInP2", "NaCl1.7", "Xx2"}

FormulaLists == UNION {[1..n -> BatchFormulas] : n \in 0..MaxFormulas}

\* a call processor.process_formulas(formulas, batch_size) (lines 197-198)
CallProcessFormulas ==
    /\ pc = "idle"
    /\ \E fs \in FormulaLists, b \in 1..MaxBatch :
          pf' = [formulas |-> fs, batch_size |-> b, delay |-> DefaultDelay,
                 batch_idx |-> 0, i |-> 0, batch_results |-> <<>>, results |-> <<>>,
                 failed |-> {}]
    /\ pc' = "pf_for"
    /\ UNCHANGED <<cached_structures, error_log, files, checkpoint, rt, goc, stoich, helper,
                   sleeps, outcomes, trace, lookups, searches, produced, first_ret,
                   events, calls>>

\* lines 200-204 and 221-222: the next batch, or the return
PfFor ==
    /\ pc = "pf_for"
    /\ IF pf.batch_idx < Len(pf.formulas)
       THEN /\ pf' = [pf EXCEPT !.i = 1, !.batch_results = <<>>]
            /\ pc' = "pf_formula"
       ELSE /\ pc' = "done"
            /\ UNCHANGED pf
    /\ UNCHANGED <<cached_structures, error_log, files, checkpoint, rt, goc, stoich, helper,
                   sleeps, outcomes, trace, lookups, searches, produced, first_ret,
                   events, calls>>

\* lines 205-207: the pipeline is called for the next formula of the batch
PfCallPipeline ==
    /\ pc = "pf_formula"
    /\ pf.i <= Len(Batch(pf.formulas, pf.batch_idx, pf.batch_size))
    /\ goc' = StartGoc(pf.formulas[pf.batch_idx + pf.i], "batch")
    /\ events' = Append(events, [op |-> "call", arg |-> pf.batch_idx + pf.i])
    /\ pc' = "goc_enter"
    /\ UNCHANGED <<cached_structures, error_log, files, checkpoint, rt, pf, stoich, helper,
                   sleeps, outcomes, trace, lookups, searches, produced, first_ret,
                   calls>>

\* lines 208-213: the structure file is written and the result recorded, or the
\* exception of the pipeline or of the write is caught
PfAfterCall ==
    /\ pc = "goc_ret"
    /\ goc.caller = "batch"
    /\ first_ret' = NoteReturn(goc.formula)
    /\ \E written \in BOOLEAN, error_written \in BOOLEAN :
          IF ~goc.raised /\ written
          THEN /\ files' = files \cup {<<"cif", goc.formula>>}
               /\ pf' = [pf EXCEPT !.batch_results = DictSet(@, goc.formula, goc.result),
                                   !.i = @ + 1]
               /\ pc' = "pf_formula"
          ELSE /\ files' = IF error_written THEN files \cup {<<"error", goc.formula>>}
                           ELSE files
               /\ pf' = [pf EXCEPT !.failed = @ \cup {pf.batch_idx + pf.i}, !.i = @ + 1]
               /\ pc' = AfterFormulaFailure
    /\ CallOver
    /\ UNCHANGED <<cached_structures, error_log, checkpoint, rt, stoich, helper, sleeps, events,
                   calls>>

\* lines 215-219: the batch is over
PfBatchEnd ==
    /\ pc = "pf_formula"
    /\ pf.i > Len(Batch(pf.formulas, pf.batch_idx, pf.batch_size))
    /\ LET results == DictUpdate(pf.results, pf.batch_results)
       IN  /\ pf' = [pf EXCEPT !.results = results, !.batch_idx = @ + pf.batch_size]
           /\ checkpoint' = DictKeys(results)
    /\ sleeps' = Append(sleeps, pf.delay)
    /\ events' = events \o <<[op |-> "checkpoint", arg |-> 0],
                             [op |-> "sleep", arg |-> pf.delay]>>
    /\ pc' = "pf_for"
    /\ UNCHANGED <<cached_structures, error_log, files, rt, goc, stoich, helper, outcomes, trace,
                   lookups, searches, produced, first_ret, calls>>

NextBatch ==
    \/ CallProcessFormulas
    \/ PfFor
    \/ PfCallPipeline
    \/ GocEnter
    \/ RetryIter
    \/ RetryExhausted
    \/ GocStageDone
    \/ PfAfterCall
    \/ PfBatchEnd

SpecBatch == Init /\ [][NextBatch]_vars

(***************************************************************************)
(* Properties.                                                             *)
(***************************************************************************)
StageRank(stage) ==
    CASE stage = "database" -> 1
      [] stage = "substitution" -> 2
      [] stage = "prototype" -> 3
      [] stage = "emergency" -> 4
      [] OTHER -> 0

AllOutcomes(kind) == \A k \in 1..Len(outcomes) : outcomes[k] = kind

\* backoff_factor^0, ..., backoff_factor^(n-1)
BackoffSleeps(backoff_factor, n) == [k \in 1..n |-> backoff_factor ^ (k - 1)]

RetryReturned == pc \in {"retry_ret", "done"} /\ rt.caller = "direct"

PfRunning == pf.batch_size > 0

PfReturned == pc = "done" /\ PfRunning

\* the indices of the formulas the pipeline was called for, in call order
CalledIndices == SelectSeq(events, LAMBDA e : e.op = "call")

\* C1: for every non-empty formula and every behaviour of the collaborators,
\* get_or_create_structure returns a structure with at least one site and a
\* volume above 0, and never raises.
C1_AlwaysReturnsStructure ==
    pc = "goc_ret" =>
        /\ ~goc.raised
        /\ goc.result.kind = "Structure"
        /\ Len(goc.result.sites) >= 1
        /\ goc.result.vol > 0

\* C2: once a call for a formula has returned, a later call for the same
\* formula returns the same structure and issues no database lookup and no
\* substitution search, whichever stage produced the first result.
C2_SecondCallIdempotent ==
    (pc = "goc_ret" /\ first_ret[goc.formula] # None) =>
        /\ ~goc.raised
        /\ goc.result = first_ret[goc.formula]
        /\ lookups = 0
        /\ searches = 0

\* C3: within one call the stages are invoked in the order database,
\* substitution, prototype, emergency, and no stage is invoked after a stage
\* that produced a structure.
C3_StagesInOrder ==
    /\ \A i, j \in 1..Len(trace) : i < j => StageRank(trace[i]) <= StageRank(trace[j])
    /\ produced # "none" =>
          \A i \in 1..Len(trace) : StageRank(trace[i]) <= StageRank(produced)

\* C4: "MgInP2" with a database miss and a substitution miss is resolved by the
\* prototype stage; the emergency factory is not invoked.
C4_TernaryViaPrototype ==
    (/\ pc = "goc_ret"
     /\ goc.formula = "MgInP2"
     /\ lookups > 0
     /\ produced \notin {"database", "substitution"}) =>
        /\ ~goc.raised
        /\ goc.result.kind = "Structure"
        /\ goc.result.src = "prototype"
        /\ \A i \in 1..Len(trace) : trace[i] # "emergency"

\* C5: the mapping process_formulas returns has exactly one entry for each
\* input formula, also for a formula whose resolution or file write raised.
C5_OneEntryPerFormula ==
    PfReturned =>
        /\ {pf.results[k].key : k \in 1..Len(pf.results)}
              = {pf.formulas[k] : k \in 1..Len(pf.formulas)}
        /\ \A j, k \in 1..Len(pf.results) :
              pf.results[j].key = pf.results[k].key => j = k

CeilDiv(a, b) == (a + b - 1) \div b

\* the stages still to be tried when func comes back with nothing
StagesAfter(func) ==
    CASE func = "mp" -> 2
      [] func = "subst" -> 1
      [] OTHER -> 0

\* the steps one retry takes at most: its iterations, the exhausted loop, the
\* return to get_or_create_structure
RetrySteps == DefaultMaxRetries + 2

\* the steps the running pipeline call takes at most until process_formulas
\* has dealt with its result
InCallSteps ==
    CASE pc = "goc_enter" -> 3 * RetrySteps + 2
      [] pc = "retry" -> (rt.max_retries - rt.attempt) + 3 + StagesAfter(rt.func) * RetrySteps
      [] pc = "retry_ret" -> 2 + StagesAfter(rt.func) * RetrySteps
      [] pc = "goc_ret" -> 1
      [] OTHER -> 0

\* an upper bound on the steps process_formulas still takes before it returns
StepsLeft ==
    LET n == Len(pf.formulas)
        rest == Max(n - pf.batch_idx, 0)
        batches == CeilDiv(rest, pf.batch_size)
    IN  CASE pc = "done" -> 0
          [] pc = "pf_for" -> rest * (3 * RetrySteps + 3) + 2 * batches + 1
          [] pc = "pf_formula" ->
                (rest - (pf.i - 1)) * (3 * RetrySteps + 3) + 2 * batches
          [] OTHER -> (rest - pf.i) * (3 * RetrySteps + 3) + InCallSteps + 2 * batches

PfLocations == {"pf_for", "pf_formula", "goc_enter", "retry", "retry_ret", "goc_ret"}

\* C6: process_formulas runs to completion: an exception of the pipeline or
\* of the file write never leaves process_formulas, every step of the run
\* lowers a bound on the steps still to take, and at the return the pipeline
\* has been called for every formula of the list, in order.
C6_RunsToCompletion ==
    /\ [](/\ pc # "pf_raised"
          /\ (PfRunning /\ pc # "done") => pc \in PfLocations
          /\ PfReturned =>
                CalledIndices = [k \in 1..Len(pf.formulas) |-> [op |-> "call", arg |-> k]])
    /\ [][PfRunning => (StepsLeft' < StepsLeft /\ StepsLeft' >= 0)]_vars

\* a run that returned although the first formula of a two-batch list failed
C6_Witness ==
    /\ PfReturned
    /\ Len(pf.formulas) = 3
    /\ pf.batch_size = 2
    /\ pf.failed = {1}
    /\ Len(pf.results) >= 1

\* C7: on an operation that raises on every call, retry calls it exactly
\* max_retries times, sleeps backoff_factor^0, backoff_factor^1, ... between
\* consecutive attempts and not after the last, returns None and appends
\* exactly one entry to error_log (max_retries >= 1).
C7_RetryExhaustsOnRaise ==
    (RetryReturned /\ AllOutcomes("raise")) =>
        /\ Len(outcomes) = rt.max_retries
        /\ sleeps = BackoffSleeps(rt.backoff_factor, rt.max_retries - 1)
        /\ rt.result = None
        /\ Len(error_log) = 1

\* three raising attempts with backoff factor 2
C7_Witness ==
    /\ RetryReturned
    /\ pc = "done"
    /\ rt.max_retries = 3
    /\ rt.backoff_factor = 2
    /\ outcomes = <<"raise", "raise", "raise">>
    /\ sleeps = <<1, 2>>

\* C8: when the operation returns a falsy result on every call, retry waits
\* backoff_factor^attempt before each next attempt and appends an entry to
\* error_log before it returns None.
C8_BackoffOnFalsy ==
    (RetryReturned /\ AllOutcomes("falsy")) =>
        /\ sleeps = BackoffSleeps(rt.backoff_factor, rt.max_retries - 1)
        /\ Len(error_log) = 1

RECURSIVE ExpectedEvents(_, _, _, _)
\* the calls of batch k, k+1, ... of n formulas in batches of b, each batch
\* followed by one checkpoint write and one sleep
ExpectedEvents(k, n, b, delay) ==
    IF k * b >= n THEN <<>>
    ELSE [j \in 1..(IF n - k * b < b THEN n - k * b ELSE b) |->
              [op |-> "call", arg |-> k * b + j]]
         \o <<[op |-> "checkpoint", arg |-> 0], [op |-> "sleep", arg |-> delay]>>
         \o ExpectedEvents(k + 1, n, b, delay)

IsPrefix(s, t) == Len(s) <= Len(t) /\ s = SubSeq(t, 1, Len(s))

\* C9: n formulas with batch size b are processed in ceil(n/b) batches in
\* input order, each of size b except a smaller last one, every formula in
\* exactly one batch; after each batch the checkpoint is written once and then
\* delay seconds are slept.
C9_BatchesInOrder ==
    PfRunning =>
        LET expected == ExpectedEvents(0, Len(pf.formulas), pf.batch_size, pf.delay)
        IN  /\ IsPrefix(events, expected)
            /\ pc = "done" => events = expected
            /\ sleeps = [k \in 1..Len(SelectSeq(events, LAMBDA e : e.op = "sleep")) |->
                            pf.delay]

\* three formulas in batches of two: the batches are (1, 2) and (3)
C9_Witness ==
    /\ PfReturned
    /\ Len(pf.formulas) = 3
    /\ pf.batch_size = 2
    /\ Len(events) = 7
    /\ events[3].op = "checkpoint"
    /\ events[5] = [op |-> "call", arg |-> 3]

\* the ratios the validator is said to accept: 1, 1/2, 2, 1/3, 3
ClaimedRatios == {<<1, 1>>, <<1, 2>>, <<2, 1>>, <<1, 3>>, <<3, 1>>}

\* C10: a two-element composition with amounts a, b is valid if and only if
\* a/b or b/a is within 0.01 of one of 1, 1/2, 2, 1/3, 3; any other number of
\* elements is valid.
C10_StoichiometryIff ==
    stoich.called =>
        (stoich.result <=>
            IF Len(stoich.comp.elements) = 2
            THEN LET a == stoich.comp.amounts[1]
                     b == stoich.comp.amounts[2]
                 IN  \E r \in ClaimedRatios :
                        \/ WithinTolerance(a, b, r[1], r[2])
                        \/ WithinTolerance(b, a, r[1], r[2])
            ELSE TRUE)

EmergencyCalled == helper.func = "emergency"

\* C11: _generate_emergency_structure returns a structure of exactly one atom
\* in the cubic cell of edge 4; the atom is the first element of a composition
\* that has elements, and the placeholder H only for an empty composition.
C11_EmergencyFirstElement ==
    EmergencyCalled =>
        /\ ~helper.out.raised
        /\ helper.out.value.kind = "Structure"
        /\ helper.out.value.vol = EmergencyVolume
        /\ helper.out.value.sites =
              IF helper.comp.elements = <<>> THEN <<"H">>
              ELSE <<helper.comp.elements[1]>>

\* C12: when get_or_create_structure returns a structure for a formula, the
\* cache holds that structure under the formula, whichever stage produced it,
\* the emergency factory included.
C12_ResultIsCached ==
    (pc = "goc_ret" /\ ~goc.raised) => cached_structures[goc.formula] = goc.result

\* a formula that does not parse, or a composition the stoichiometry check rejects
InvalidInput(formula) ==
    ~CompositionParses(formula) \/ ~is_valid_stoichiometry(Composition(formula))

\* C13: for invalid input get_or_create_structure issues no database lookup
\* and no substitution search, invokes only the prototype or emergency stage,
\* and returns a structure without raising.
C13_InvalidInputSkipsToEmergency ==
    (pc = "goc_ret" /\ InvalidInput(goc.formula)) =>
        /\ lookups = 0
        /\ searches = 0
        /\ \A i \in 1..Len(trace) : trace[i] \in {"prototype", "emergency"}
        /\ ~goc.raised
        /\ goc.result.kind = "Structure"

\* C14: a structure of the database or substitution stage that fails at the
\* validation step counts as a miss of that stage: the next stage in order is
\* tried, so the emergency factory is never invoked right after the database
\* or the substitution stage.
C14_ValidationFailureCascades ==
    pc = "goc_ret" =>
        \A i \in 1..(Len(trace) - 1) :
            trace[i] \in {"database", "substitution"} => trace[i + 1] # "emergency"

\* the invocations of a stage function recorded for the running call
Invocations(stage) == Len(SelectSeq(trace, LAMBDA s : s = stage))

\* C15: the prototype stage is not retried: within one call of
\* get_or_create_structure the prototype generator is invoked at most once,
\* also when it returns no structure.
C15_PrototypeNotRetried == Invocations("prototype") <= 1

\* retry is running, or has just returned, the database stage of a pipeline call
InDatabaseStage == pc \in {"retry", "retry_ret"} /\ rt.caller = "goc" /\ rt.func = "mp"

\* C16: every invocation of _get_mp_structure issues exactly one lookup and
\* comes back without raising (with None when the client raised or found
\* nothing), and one call of get_or_create_structure issues at most
\* max_retries lookups in all.
C16_LookupsBounded ==
    /\ lookups = Invocations("database")
    /\ lookups <= DefaultMaxRetries
    /\ InDatabaseStage =>
          /\ Len(outcomes) = lookups
          /\ \A k \in 1..Len(outcomes) : outcomes[k] # "raise"
          /\ error_log = <<>>

\* five lookups came back empty-handed and the substitution stage then
\* produced the structure that is returned
C16_Witness ==
    /\ pc = "goc_ret"
    /\ lookups = DefaultMaxRetries
    /\ produced = "substitution"
    /\ goc.result.src = "substitution"

Occurrences(seq, x) == Len(SelectSeq(seq, LAMBDA y : y = x))

\* sorted is seq in canonical order: the same atoms, by rising electronegativity
IsCanonicalOrderOf(sorted, seq) ==
    /\ Len(sorted) = Len(seq)
    /\ \A k \in 1..Len(seq) : Occurrences(sorted, seq[k]) = Occurrences(seq, seq[k])
    /\ \A j, k \in 1..Len(sorted) :
          j < k => Electronegativity(sorted[j]) <= Electronegativity(sorted[k])

\* the running call resolved the formula through a stage: not from the cache,
\* not with the emergency structure
ResolvedByStage ==
    pc = "goc_ret" /\ ~goc.raised /\ trace # <<>> /\ goc.result.src # "emergency"

\* C17: a call validates at most one structure, and never an emergency
\* structure or a structure taken from the cache; the structure it caches and
\* returns is the validated stage structure: volume 2*v for v < 1.0, volume v
\* otherwise, the sites in canonical order; an emergency result is returned
\* as the factory built it.
C17_ValidatedOnce ==
    pc = "goc_ret" =>
        /\ Len(goc.validated) <= 1
        /\ \A k \in 1..Len(goc.validated) :
              goc.validated[k].src \in {"database", "substitution", "prototype"}
        /\ ResolvedByStage =>
              /\ Len(goc.validated) = 1
              /\ goc.result.src = goc.validated[1].src
              /\ goc.result.vol = IF goc.validated[1].vol < MinVolume
                                  THEN 2 * goc.validated[1].vol
                                  ELSE goc.validated[1].vol
              /\ IsCanonicalOrderOf(goc.result.sites, goc.validated[1].sites)
              /\ cached_structures[goc.formula] = goc.result
        /\ (~goc.raised /\ trace = <<>>) => goc.validated = <<>>
        /\ (~goc.raised /\ goc.result.src = "emergency") =>
              /\ goc.result.vol = EmergencyVolume
              /\ Len(goc.result.sites) = 1

\* a database cell of volume 0.4 with its sites out of order was rescaled to
\* 0.8 and sorted
C17_Witness ==
    /\ ResolvedByStage
    /\ goc.validated[1].src = "database"
    /\ goc.validated[1].vol = 4
    /\ goc.result.vol = 8
    /\ goc.validated[1].sites = <<"P", "P", "In", "Mg">>
    /\ goc.result.sites = <<"Mg", "In", "P", "P">>

SubstCalled == helper.func = "subst"

\* the element counts truncated to integers
TruncatedCounts(comp) == [k \in 1..Len(comp.amounts) |-> comp.amounts[k] \div 10]

\* C18: _predict_substitution never raises; it returns None without invoking
\* the substitution search when the composition has fewer than 2 elements,
\* when the gcd of the truncated counts is 0, and when the largest
\* gcd-reduced count exceeds 4; it returns None when the search itself fails.
C18_SubstitutionGuarded ==
    SubstCalled =>
        LET counts == TruncatedCounts(helper.comp)
            g == GcdSeq(counts)
        IN  /\ ~helper.out.raised
            /\ (\/ Len(helper.comp.elements) < 2
                \/ g = 0
                \/ \E k \in 1..Len(counts) : counts[k] > 4 * g) =>
                  /\ ~helper.searched
                  /\ helper.out.value = None
            /\ helper.reply = "exception" => helper.out.value = None

\* Mg : In : P = 1 : 1 : 5 is turned away before the search
C18_Witness ==
    /\ SubstCalled
    /\ helper.comp = Comp(<<"Mg", "In", "P">>, <<10, 10, 50>>)
    /\ ~helper.searched
    /\ helper.out = Returned(None)

\* C19: a cache entry, once written, is never removed or overwritten, and a
\* call for a formula that has an entry returns that entry at once, without
\* running a stage and without writing the cache.
C19_CacheEntriesStable ==
    [][/\ \A f \in Formulas :
             cached_structures[f] # None => cached_structures'[f] = cached_structures[f]
       /\ (pc = "goc_enter" /\ cached_structures[goc.formula] # None) =>
             /\ pc' = "goc_ret"
             /\ ~goc'.raised
             /\ goc'.result = cached_structures[goc.formula]
             /\ cached_structures' = cached_structures]_vars

\* the second call for a formula the first call resolved from the database
C19_Witness ==
    /\ pc = "goc_ret"
    /\ calls = 2
    /\ trace = <<>>
    /\ ~goc.raised
    /\ goc.result.src = "database"
    /\ goc.result = cached_structures[goc.formula]
    /\ goc.result = first_ret[goc.formula]

CheckpointWritten == checkpoint # <<"absent">>

CheckpointSet == {checkpoint[j] : j \in 1..Len(checkpoint)}

\* the positions of the list that lie in the batches finished so far
FinishedIndices == 1..Min(pf.batch_idx, Len(pf.formulas))

\* C20 as stated: the checkpoint holds exactly the formulas of the finished
\* batches that were resolved and written without an exception, holds no
\* formula that failed and none that was not processed yet, and only grows.
C20_CheckpointAsStated ==
    /\ [](PfRunning /\ CheckpointWritten =>
            /\ CheckpointSet = {pf.formulas[k] : k \in FinishedIndices \ pf.failed}
            /\ \A k \in FinishedIndices \cap pf.failed : pf.formulas[k] \notin CheckpointSet
            /\ \A f \in CheckpointSet : \E k \in FinishedIndices : pf.formulas[k] = f)
    /\ [][PfRunning /\ CheckpointWritten => IsPrefix(checkpoint, checkpoint')]_vars

\* C20, amended: the checkpoint is written after every batch; it holds, once
\* each, exactly the formulas of which some occurrence in the finished
\* batches was resolved and written without an exception (a formula can
\* occur in the list more than once, and a failed occurrence does not take
\* out what another occurrence put in); every checkpoint extends the one
\* written before it.
C20_CheckpointExact ==
    /\ [](PfRunning =>
            /\ pf.batch_idx > 0 => CheckpointWritten
            /\ CheckpointWritten =>
                  /\ CheckpointSet = {pf.formulas[k] : k \in FinishedIndices \ pf.failed}
                  /\ \A i, j \in 1..Len(checkpoint) : checkpoint[i] = checkpoint[j] => i = j)
    /\ [][PfRunning /\ CheckpointWritten => IsPrefix(checkpoint, checkpoint')]_vars

\* three distinct formulas in batches of two, the second one failed
C20_Witness ==
    /\ PfReturned
    /\ Len(pf.formulas) = 3
    /\ pf.batch_size = 2
    /\ pf.failed = {2}
    /\ pf.formulas[1] # pf.formulas[3]
    /\ checkpoint = <<pf.formulas[1], pf.formulas[3]>>

====
